---------------------------- MODULE Spec2Model ----------------------------
(***************************************************************************)
(* Model of main.cpp of Ian-Parberry/opticalillusions: a generator of four *)
(* SVG documents (two optical illusions, two palettes each).               *)
(*                                                                         *)
(* A document is the sequence of elements written to its FILE*.  Numbers   *)
(* the code prints are kept; the float geometry is kept symbolically:      *)
(*   - a square of a ring of n squares carries its index i (its angle is   *)
(*     i * 2*PI/n) and its tilt (+12 or -12 degrees);                      *)
(*   - an ellipse carries its angle theta counted in units of dtheta/2     *)
(*     = PI/(2n), the unit in which DrawTripleCircle's start angles        *)
(*     -PI/2, +PI/2 and its step dtheta = PI/n are all integers;           *)
(*   - radii of illusion 2 are kept in tenths of a pixel, the precision    *)
(*     of the "%0.1f" they are printed with.                               *)
(***************************************************************************)
EXTENDS Integers, Sequences, FiniteSets

VARIABLES
  pc,      \* control position
  k,       \* main: number of the generation call in progress (1..4, 5 after
           \* the last); 0 when the caller is the function harness
  args,    \* parameters of the generation routine in progress
  i,       \* loop index of the generation routine (ring or braid number)
  output,  \* FILE* output: NULL or the path of the open file
  fs,      \* file system: path -> [state, data]
  frame,   \* parameters and output of the most recent helper/layout call
  ub,      \* TRUE once a FILE* that is null or closed has been used
  ret      \* main's return value: <<>> until main returns, then <<value>>

vars == <<pc, k, args, i, output, fs, frame, ub, ret>>

NULL == "nullptr"
NoRet == <<>>
NoFrame == [fn |-> "none"]
NoArgs == [fn |-> 0]

-----------------------------------------------------------------------------
(* Bounds of the harness inputs.                                           *)

MaxR == 6        \* radii 1..MaxR of a ring of squares
MaxSW == 5       \* square widths 1..MaxSW
MaxN == 4        \* visual ellipse counts 1..MaxN
MaxW == 2        \* image widths and heights 1..MaxW

(* (size_t)-1 and its neighbours: the result of n/2 - 2 when n/2 < 2.  It  *)
(* lies beyond every slot index; it stands for 2^64 - 1.                   *)
SIZE_MAX == 2147483647

(* Default value of DrawCircleOfEllipses' parameter flip.                  *)
DefaultFlip == 999999

-----------------------------------------------------------------------------
(* Arithmetic helpers.                                                     *)

CeilDiv(a, b) == (a + b - 1) \div b

(* size_t subtraction a - b, wrapping below zero.                          *)
SizeSub(a, b) == IF a >= b THEN a - b ELSE SIZE_MAX - (b - a) + 1

(* x & 0xFFFFFFFE for x < 2^32: bit 0 cleared.                             *)
ClearBit0RoundUp(x) == x + (x % 2)
ClearBit0(x) == x - (x % 2)

(* ceil((2*PI*r)/(1.5f*sw)) with PI = 355/113; for integer r in 1..400 and *)
(* sw in 1..40 this equals the value the float expression yields.          *)
CeilArc(r, sw) == CeilDiv(4 * 355 * r, 3 * 113 * sw)

(* n of DrawCircleOfSquares.                                               *)
SquareCountNoMask(r, sw) == CeilArc(r, sw)
SquareCount(r, sw) == ClearBit0(CeilArc(r, sw))

-----------------------------------------------------------------------------
(* Illusion 1: a circle of squares.                                        *)

(* Class written for square i (the if(i&1) of the loop body).              *)
SquareClass(idx, parity) == IF idx % 2 = 1 THEN "b" ELSE "w"

(* One iteration of the loop: the <g><rect/></g> element of square i.      *)
SquareElement(idx, n, r, sw, parity) ==
  [tag |-> "rect", idx |-> idx, of |-> n, r |-> r, sw |-> sw,
   tilt |-> IF parity THEN 12 ELSE -12, class |-> SquareClass(idx, parity)]

(* The elements DrawCircleOfSquares writes, in order.                      *)
DrawCircleOfSquares(r, sw, parity) ==
  LET n == SquareCount(r, sw)
  IN  [x \in 1..n |-> SquareElement(x - 1, n, r, sw, parity)]

-----------------------------------------------------------------------------
(* Illusion 2: circles of ellipses.                                        *)

(* SelectEllipseColor: the class attribute written, "none" when nothing    *)
(* is written.                                                             *)
SelectEllipseColorGapsColoured(idx, parity) ==
  LET j == idx % 4
  IN  IF (parity /\ j = 0) \/ (~parity /\ j = 2) THEN "b"
      ELSE IF (parity /\ j = 2) \/ (~parity /\ j = 0) THEN "w"
      ELSE IF ~parity /\ j = 1 THEN "w"
      ELSE "none"
SelectEllipseColor(idx, parity) ==
  LET j == idx % 4
  IN  IF (parity /\ j = 0) \/ (~parity /\ j = 2) THEN "b"
      ELSE IF (parity /\ j = 2) \/ (~parity /\ j = 0) THEN "w"
      ELSE "none"

(* The loop of DrawCircleOfEllipses from index idx on, with the loop's     *)
(* variables theta and parity: one <g><ellipse/></g> element per           *)
(* iteration, then theta += dtheta and the parity flip.                    *)
RECURSIVE EllipseLoopFlipFirst(_, _, _, _, _, _, _, _)
EllipseLoopFlipFirst(idx, n, r, r0, r1, theta, parity, flip) ==
  IF idx >= n THEN <<>>
  ELSE LET p == IF idx = flip THEN ~parity ELSE parity
       IN <<[tag |-> "ellipse", r |-> r, rx |-> r0, ry |-> r1, theta |-> theta,
             class |-> SelectEllipseColor(idx, p)]>>
          \o EllipseLoopFlipFirst(idx + 1, n, r, r0, r1, theta + 2, p, flip)
RECURSIVE EllipseLoop(_, _, _, _, _, _, _, _)
EllipseLoop(idx, n, r, r0, r1, theta, parity, flip) ==
  IF idx >= n THEN <<>>
  ELSE <<[tag |-> "ellipse", r |-> r, rx |-> r0, ry |-> r1, theta |-> theta,
          class |-> SelectEllipseColor(idx, parity)]>>
       \o EllipseLoop(idx + 1, n, r, r0, r1, theta + 2,
                      IF idx = flip THEN ~parity ELSE parity, flip)

(* A call of DrawCircleOfEllipses: its parameters and what it writes.      *)
DrawCircleOfEllipsesFlipFirst(r, r0, r1, n, theta, parity, flip) ==
  [r |-> r, n |-> n, theta |-> theta, parity |-> parity, flip |-> flip,
   out |-> EllipseLoopFlipFirst(0, n, r, r0, r1, theta, parity, flip)]
DrawCircleOfEllipses(r, r0, r1, n, theta, parity, flip) ==
  [r |-> r, n |-> n, theta |-> theta, parity |-> parity, flip |-> flip,
   out |-> EllipseLoop(0, n, r, r0, r1, theta, parity, flip)]

(* DrawTripleCircle(.., n, flip): its three calls, in order middle, inner, *)
(* outer.  theta = -+PI/2 is -+n units, dtheta is 2 units.                 *)
DrawTripleCircleFlipParity(r, r0, r1, n, flip) ==
  LET theta == IF flip THEN n ELSE -n
      n2 == n * 2
  IN  << DrawCircleOfEllipses(r, r0, r1, n2, theta, ~flip, DefaultFlip),
         DrawCircleOfEllipses(r - r1, r0, r1, n2, theta + 2, ~flip,
                              SizeSub(n2 \div 2, 1)),
         DrawCircleOfEllipses(r + r1, r0, r1, n2, theta + 2, flip,
                              SizeSub(n2 \div 2, 2)) >>
DrawTripleCircleLateFlip(r, r0, r1, n, flip) ==
  LET theta == IF flip THEN n ELSE -n
      n2 == n * 2
  IN  << DrawCircleOfEllipses(r, r0, r1, n2, theta, TRUE, DefaultFlip),
         DrawCircleOfEllipses(r - r1, r0, r1, n2, theta + 2, TRUE,
                              SizeSub(n2 \div 2, 0)),
         DrawCircleOfEllipses(r + r1, r0, r1, n2, theta + 2, FALSE,
                              SizeSub(n2 \div 2, 1)) >>
DrawTripleCircle(r, r0, r1, n, flip) ==
  LET theta == IF flip THEN n ELSE -n
      n2 == n * 2
  IN  << DrawCircleOfEllipses(r, r0, r1, n2, theta, TRUE, DefaultFlip),
         DrawCircleOfEllipses(r - r1, r0, r1, n2, theta + 2, TRUE,
                              SizeSub(n2 \div 2, 1)),
         DrawCircleOfEllipses(r + r1, r0, r1, n2, theta + 2, FALSE,
                              SizeSub(n2 \div 2, 2)) >>

-----------------------------------------------------------------------------
(* Files and the helpers OpenSVG and CloseSVG.  A file is keyed by the     *)
(* name passed as fname (its path is fname + ".svg").  state is            *)
(* "untouched" (no fopen yet), "failed" (the last fopen on it failed),     *)
(* "open" or "closed".                                                     *)

MainFiles == {"output1", "output1a", "output2", "output2a"}
HarnessFile == "t"
Files == MainFiles \cup {HarnessFile}

FreshFS == [f \in Files |-> [state |-> "untouched", data |-> <<>>]]

(* A FILE* that may be written to and closed.                              *)
ValidHandle(F, h) == h # NULL /\ F[h].state = "open"

(* fprintf(h, ...) of the elements items: appended to the open file.       *)
Fprintf(F, h, items) ==
  IF ValidHandle(F, h) THEN [F EXCEPT ![h].data = @ \o items] ELSE F

(* The header OpenSVG prints: the xml tag, the svg tag, the comment.       *)
Header(w, h) ==
  << [tag |-> "xml"],
     [tag |-> "svg", width |-> w, height |-> w, viewBox |-> <<0, 0, w, w>>],
     [tag |-> "comment", text |-> "Created by Ian Parberry"] >>

(* OpenSVG(output, fname, w, h); ok is whether fopen succeeds.  fopen      *)
(* with "wt" creates or truncates the file.                                *)
OpenSVG(F, fname, w, h, ok) ==
  IF ok
    THEN [ok |-> TRUE, output |-> fname,
          fs |-> [F EXCEPT ![fname] = [state |-> "open", data |-> Header(w, h)]]]
    ELSE [ok |-> FALSE, output |-> NULL,
          fs |-> [F EXCEPT ![fname].state = "failed"]]

(* CloseSVG(output): the handle and file system it leaves, what it wrote,  *)
(* whether it called fclose, and whether it used an invalid FILE*.         *)
CloseSVGNoNullCheck(F, out) ==
  [output |-> NULL,
   fs |-> IF ValidHandle(F, out)
            THEN [Fprintf(F, out, <<[tag |-> "/svg"]>>) EXCEPT ![out].state = "closed"]
            ELSE F,
   wrote |-> <<[tag |-> "/svg"]>>, closed |-> TRUE,
   ub |-> ~ValidHandle(F, out)]
CloseSVG(F, out) ==
  IF out # NULL
    THEN [output |-> NULL,
          fs |-> IF ValidHandle(F, out)
                   THEN [Fprintf(F, out, <<[tag |-> "/svg"]>>)
                           EXCEPT ![out].state = "closed"]
                   ELSE F,
          wrote |-> <<[tag |-> "/svg"]>>, closed |-> TRUE,
          ub |-> ~ValidHandle(F, out)]
    ELSE [output |-> out, fs |-> F, wrote |-> <<>>, closed |-> FALSE, ub |-> FALSE]

-----------------------------------------------------------------------------
(* The four calls of main.  Radii of illusion 2 are in tenths of a pixel.  *)

MainCalls ==
  << [fn |-> 1, fname |-> "output1", w |-> 800, n |-> 4, r0 |-> 100, dr |-> 72,
      sw |-> 24, dark |-> "black", light |-> "white", bgclr |-> "gray"],
     [fn |-> 1, fname |-> "output1a", w |-> 800, n |-> 4, r0 |-> 100, dr |-> 72,
      sw |-> 24, dark |-> "blue", light |-> "yellow", bgclr |-> "forestgreen"],
     [fn |-> 2, fname |-> "output2", w |-> 800, n |-> 3, r |-> 3000, r0 |-> 120,
      r1 |-> 60, dark |-> "black", light |-> "white", bgclr |-> "gray"],
     [fn |-> 2, fname |-> "output2a", w |-> 800, n |-> 3, r |-> 3000, r0 |-> 120,
      r1 |-> 60, dark |-> "blue", light |-> "yellow", bgclr |-> "forestgreen"] >>

(* The style tag and the background rectangle of a generation routine.     *)
StyleAndBackground(a) ==
  LET cx == IF a.fn = 1 THEN a.w \div 2 - a.sw \div 2 ELSE a.w \div 2
  IN  << [tag |-> "style", shape |-> IF a.fn = 1 THEN "rect" ELSE "ellipse",
          cx |-> cx, cy |-> cx, dark |-> a.dark, light |-> a.light],
         [tag |-> "background", width |-> a.w, height |-> a.w, fill |-> a.bgclr] >>

(* The ellipse count OpticalIllusion2 passes to DrawTripleCircle.          *)
BraidEllipses(a) == 36

(* The braid number b (0, 1) of OpticalIllusion2: its DrawTripleCircle.    *)
Braid(a, b) ==
  IF b = 0
    THEN DrawTripleCircle(a.r, a.r0, a.r1, BraidEllipses(a), FALSE)
    ELSE DrawTripleCircle(a.r - 640, (8 * a.r0) \div 10, (8 * a.r1) \div 10,
                          BraidEllipses(a), TRUE)

(* Everything a DrawTripleCircle writes.                                   *)
TripleOut(calls) == calls[1].out \o calls[2].out \o calls[3].out

-----------------------------------------------------------------------------
(* Input sets of the harness.                                              *)

MainRadii == {MainCalls[1].r0 + x * MainCalls[1].dr : x \in 0..(MainCalls[1].n - 1)}
SquareInputs ==
  ((1..MaxR) \X (1..MaxSW)) \cup (MainRadii \X {MainCalls[1].sw})
Widths == (1..MaxW) \cup {MainCalls[1].w}
VisualCounts == (1..MaxN) \cup {BraidEllipses(MainCalls[3])}
FlipIndices == (0..(2 * MaxN + 1)) \cup {DefaultFlip}
StartAngles == {-1, 0}

-----------------------------------------------------------------------------
(* The generation routines OpticalIllusion1 and OpticalIllusion2, one      *)
(* action per call they make.                                              *)

(* FILE* output = nullptr; if(OpenSVG(output, fname, w, w)){               *)
RoutineOpenIgnoreResult ==
  /\ pc = "OpenSVG"
  /\ \E ok \in BOOLEAN :
       LET res == OpenSVG(fs, args.fname, args.w, args.w, ok)
       IN  /\ output' = res.output
           /\ fs' = res.fs
           /\ frame' = [fn |-> "OpenSVG", fname |-> args.fname, w |-> args.w,
                        h |-> args.w, ok |-> res.ok]
           /\ pc' = "style"
  /\ UNCHANGED <<k, args, i, ub, ret>>
RoutineOpen ==
  /\ pc = "OpenSVG"
  /\ \E ok \in BOOLEAN :
       LET res == OpenSVG(fs, args.fname, args.w, args.w, ok)
       IN  /\ output' = res.output
           /\ fs' = res.fs
           /\ frame' = [fn |-> "OpenSVG", fname |-> args.fname, w |-> args.w,
                        h |-> args.w, ok |-> res.ok]
           /\ pc' = IF res.ok THEN "style" ELSE "return"
  /\ UNCHANGED <<k, args, i, ub, ret>>

(* The style tag and the background rectangle.                             *)
RoutineStyle ==
  /\ pc = "style"
  /\ fs' = Fprintf(fs, output, StyleAndBackground(args))
  /\ ub' = (ub \/ ~ValidHandle(fs, output))
  /\ i' = 0
  /\ pc' = "draw"
  /\ UNCHANGED <<k, args, output, frame, ret>>

(* OpticalIllusion1: DrawCircleOfSquares(output, cx, cy, r0 + i*dr, sw, i&1) *)
Illusion1Ring ==
  /\ pc = "draw"
  /\ args.fn = 1
  /\ i < args.n
  /\ LET r == args.r0 + i * args.dr
         parity == (i % 2 = 1)
         out == DrawCircleOfSquares(r, args.sw, parity)
     IN  /\ fs' = Fprintf(fs, output, out)
         /\ frame' = [fn |-> "DrawCircleOfSquares", r |-> r, sw |-> args.sw,
                      parity |-> parity, out |-> out]
  /\ ub' = (ub \/ ~ValidHandle(fs, output))
  /\ i' = i + 1
  /\ UNCHANGED <<pc, k, args, output, ret>>

(* OpticalIllusion2: its two DrawTripleCircle calls.                       *)
Illusion2Braid ==
  /\ pc = "draw"
  /\ args.fn = 2
  /\ i < 2
  /\ LET calls == Braid(args, i)
     IN  /\ fs' = Fprintf(fs, output, TripleOut(calls))
         /\ frame' = [fn |-> "DrawTripleCircle", n |-> BraidEllipses(args),
                      flip |-> (i = 1), calls |-> calls]
  /\ ub' = (ub \/ ~ValidHandle(fs, output))
  /\ i' = i + 1
  /\ UNCHANGED <<pc, k, args, output, ret>>

(* CloseSVG(output) after the last layout call.                            *)
RoutineClose ==
  /\ pc = "draw"
  /\ i = IF args.fn = 1 THEN args.n ELSE 2
  /\ LET res == CloseSVG(fs, output)
     IN  /\ output' = res.output
         /\ fs' = res.fs
         /\ ub' = (ub \/ res.ub)
         /\ frame' = [fn |-> "CloseSVG", before |-> output, wrote |-> res.wrote,
                      closed |-> res.closed]
  /\ pc' = "return"
  /\ UNCHANGED <<k, args, i, ret>>

(* The routine returns to its caller: main (k > 0) or the harness.         *)
RoutineReturn ==
  /\ pc = "return"
  /\ pc' = IF k = 0 THEN "unit" ELSE "main"
  /\ k' = IF k = 0 THEN 0 ELSE k + 1
  /\ UNCHANGED <<args, i, output, fs, frame, ub, ret>>

-----------------------------------------------------------------------------
(* main.                                                                   *)

(* The k-th call of main enters its routine.                               *)
MainCall ==
  /\ pc = "main"
  /\ k \in 1..Len(MainCalls)
  /\ args' = MainCalls[k]
  /\ output' = NULL
  /\ i' = 0
  /\ pc' = "OpenSVG"
  /\ UNCHANGED <<k, fs, frame, ub, ret>>

(* return 0;                                                               *)
MainReturn ==
  /\ pc = "main"
  /\ k = Len(MainCalls) + 1
  /\ ret' = <<0>>
  /\ pc' = "done"
  /\ UNCHANGED <<k, args, i, output, fs, frame, ub>>

Init ==
  /\ pc = "main"
  /\ k = 1
  /\ args = NoArgs
  /\ i = 0
  /\ output = NULL
  /\ fs = FreshFS
  /\ frame = NoFrame
  /\ ub = FALSE
  /\ ret = NoRet

Routine ==
  \/ RoutineOpen
  \/ RoutineStyle
  \/ Illusion1Ring
  \/ Illusion2Braid
  \/ RoutineClose
  \/ RoutineReturn

Next ==
  \/ MainCall
  \/ Routine
  \/ MainReturn

Spec == Init /\ [][Next]_vars

-----------------------------------------------------------------------------
(* The function harness: each helper and layout function called on its     *)
(* own with inputs from the sets above, on the file HarnessFile.  A layout *)
(* function is called on a document that holds only its header; the       *)
(* generation routines are called on a fresh file system.                  *)

MainUntouched == \A f \in MainFiles : fs[f].state = "untouched"
HeaderOnly == ValidHandle(fs, output) /\ Len(fs[output].data) = Len(Header(1, 1))

UOpenSVG ==
  /\ pc = "unit"
  /\ output = NULL
  /\ MainUntouched
  /\ \E w \in Widths, h \in Widths, ok \in BOOLEAN :
       LET res == OpenSVG(fs, HarnessFile, w, h, ok)
       IN  /\ output' = res.output
           /\ fs' = res.fs
           /\ frame' = [fn |-> "OpenSVG", fname |-> HarnessFile, w |-> w,
                        h |-> h, ok |-> res.ok]
  /\ UNCHANGED <<pc, k, args, i, ub, ret>>

UCloseSVG ==
  /\ pc = "unit"
  /\ LET res == CloseSVG(fs, output)
     IN  /\ output' = res.output
         /\ fs' = res.fs
         /\ ub' = (ub \/ res.ub)
         /\ frame' = [fn |-> "CloseSVG", before |-> output, wrote |-> res.wrote,
                      closed |-> res.closed]
  /\ UNCHANGED <<pc, k, args, i, ret>>

UDrawCircleOfSquares ==
  /\ pc = "unit"
  /\ HeaderOnly
  /\ \E in \in SquareInputs, parity \in BOOLEAN :
       LET out == DrawCircleOfSquares(in[1], in[2], parity)
       IN  /\ fs' = Fprintf(fs, output, out)
           /\ frame' = [fn |-> "DrawCircleOfSquares", r |-> in[1], sw |-> in[2],
                        parity |-> parity, out |-> out]
  /\ UNCHANGED <<pc, k, args, i, output, ub, ret>>

UDrawCircleOfEllipses ==
  /\ pc = "unit"
  /\ HeaderOnly
  /\ \E n \in VisualCounts, theta \in StartAngles, parity \in BOOLEAN,
        flip \in FlipIndices :
       LET call == DrawCircleOfEllipses(MainCalls[3].r, MainCalls[3].r0,
                                        MainCalls[3].r1, 2 * n, theta, parity, flip)
       IN  /\ fs' = Fprintf(fs, output, call.out)
           /\ frame' = [fn |-> "DrawCircleOfEllipses", call |-> call]
  /\ UNCHANGED <<pc, k, args, i, output, ub, ret>>

UDrawTripleCircle ==
  /\ pc = "unit"
  /\ HeaderOnly
  /\ \E n \in VisualCounts, flip \in BOOLEAN :
       LET calls == DrawTripleCircle(MainCalls[3].r, MainCalls[3].r0,
                                     MainCalls[3].r1, n, flip)
       IN  /\ fs' = Fprintf(fs, output, TripleOut(calls))
           /\ frame' = [fn |-> "DrawTripleCircle", n |-> n, flip |-> flip,
                        calls |-> calls]
  /\ UNCHANGED <<pc, k, args, i, output, ub, ret>>

UCallRoutine ==
  /\ pc = "unit"
  /\ fs = FreshFS
  /\ \E c \in 1..Len(MainCalls) : args' = MainCalls[c]
  /\ output' = NULL
  /\ i' = 0
  /\ pc' = "OpenSVG"
  /\ UNCHANGED <<k, fs, frame, ub, ret>>

InitUnit ==
  /\ pc = "unit"
  /\ k = 0
  /\ args = NoArgs
  /\ i = 0
  /\ output = NULL
  /\ fs = FreshFS
  /\ frame = NoFrame
  /\ ub = FALSE
  /\ ret = NoRet

NextUnit ==
  \/ UOpenSVG
  \/ UCloseSVG
  \/ UDrawCircleOfSquares
  \/ UDrawCircleOfEllipses
  \/ UDrawTripleCircle
  \/ UCallRoutine
  \/ Routine

SpecUnit == InitUnit /\ [][NextUnit]_vars

-----------------------------------------------------------------------------
(* Properties.                                                             *)

SquaresCall == frame.fn = "DrawCircleOfSquares"
EllipsesCall == frame.fn = "DrawCircleOfEllipses"
TripleCall == frame.fn = "DrawTripleCircle"

(* Indices (from 1) of the elements of out that carry a colour class.      *)
Coloured(out) == {x \in 1..Len(out) : out[x].class \in {"b", "w"}}
(* Slot indices (from 0) that are gaps among n slots.                      *)
GapSlots(n) == {x \in 0..(n - 1) : x % 4 \in {1, 3}}

(* C1 (as amended): a ring-of-squares call emits an even number n of       *)
(* squares, the ceiling c = ceil(2*pi*r/(1.5*s)) rounded DOWN to even:     *)
(* n = c when c is even and n = c - 1 when c is odd.                       *)
C1_EvenRoundedDown ==
  SquaresCall =>
    LET n == Len(frame.out)
        c == CeilArc(frame.r, frame.sw)
    IN  /\ n % 2 = 0
        /\ (c % 2 = 0 => n = c)
        /\ (c % 2 = 1 => n = c - 1)

(* C1 as stated: n is even, n >= c, n = c for even c and n = c + 1 for     *)
(* odd c.                                                                  *)
C1_EvenRoundedUp ==
  SquaresCall =>
    LET n == Len(frame.out)
        c == CeilArc(frame.r, frame.sw)
    IN  /\ n % 2 = 0
        /\ n >= c
        /\ (c % 2 = 0 => n = c)
        /\ (c % 2 = 1 => n = c + 1)

(* The second ring of OpticalIllusion1 (r = 172, sw = 24): c = 31 is odd   *)
(* and 30 squares were written.                                            *)
C1_Witness ==
  /\ SquaresCall
  /\ frame.r = 172 /\ frame.sw = 24
  /\ CeilArc(frame.r, frame.sw) = 31
  /\ Len(frame.out) = 30

(* C3: a successful OpenSVG(output, fname, w, h) writes an svg tag with    *)
(* width = w, height = h and viewBox = "0 0 w h".                          *)
C3_HeaderMatchesWH ==
  (frame.fn = "OpenSVG" /\ frame.ok) =>
    LET svg == fs[frame.fname].data[2]
    IN  /\ svg.tag = "svg"
        /\ svg.width = frame.w
        /\ svg.height = frame.h
        /\ svg.viewBox = <<0, 0, frame.w, frame.h>>

(* C9: in a ring-of-squares call, for either ring parity, square i is      *)
(* Dark (b) iff i is odd and Light (w) iff i is even, and for n >= 2       *)
(* squares i and (i+1) mod n differ in class, the pair (n-1, 0) included.  *)
C9_SquaresAlternate ==
  SquaresCall =>
    LET out == frame.out
        n == Len(out)
    IN  /\ \A x \in 1..n :
             /\ out[x].idx = x - 1
             /\ out[x].class = "b" <=> (x - 1) % 2 = 1
             /\ out[x].class = "w" <=> (x - 1) % 2 = 0
        /\ n >= 2 => \A x \in 1..n : out[x].class # out[(x % n) + 1].class

(* A ring with parity set whose ceiling count was odd (31 -> 30 squares).  *)
C9_Witness ==
  /\ SquaresCall
  /\ frame.parity
  /\ CeilArc(frame.r, frame.sw) % 2 = 1
  /\ Len(frame.out) >= 2
  /\ frame.out[Len(frame.out)].class = "b"
  /\ frame.out[1].class = "w"

-----------------------------------------------------------------------------
(* Rings of ellipses.                                                      *)

(* The parity in effect at slot x of a call with initial parity p and flip *)
(* index f, as C5 states it.                                               *)
ParityAt(p, f, x) == IF x <= f THEN p ELSE ~p

(* The class C5 states for slot x under parity q.                          *)
ClassFor(x, q) ==
  IF x % 4 = 0 THEN (IF q THEN "b" ELSE "w")
  ELSE IF x % 4 = 2 THEN (IF q THEN "w" ELSE "b")
  ELSE "none"

(* C4 (as amended): a ring-of-ellipses call over 2n slots writes one       *)
(* ellipse element per slot, 2n in all; exactly n of them carry a colour   *)
(* class and each of the n gap slots (i mod 4 in {1,3}) writes an ellipse  *)
(* element with no class attribute; for either parity and any flip index.  *)
C4_OneElementPerSlot ==
  EllipsesCall =>
    LET c == frame.call
        n == c.n \div 2
    IN  /\ c.n = 2 * n
        /\ Len(c.out) = 2 * n
        /\ Cardinality(Coloured(c.out)) = n
        /\ Cardinality(GapSlots(c.n)) = n
        /\ \A x \in GapSlots(c.n) :
             /\ c.out[x + 1].tag = "ellipse"
             /\ c.out[x + 1].theta = c.theta + 2 * x
             /\ c.out[x + 1].class = "none"

(* C4 as stated: exactly n shape elements are written and a gap slot       *)
(* writes nothing (no element at the gap slot's angle).                    *)
C4_GapsWriteNothing ==
  EllipsesCall =>
    LET c == frame.call
        n == c.n \div 2
    IN  /\ Len(c.out) = n
        /\ \A x \in GapSlots(c.n) :
             ~ \E y \in 1..Len(c.out) : c.out[y].theta = c.theta + 2 * x

(* A call over 8 slots that flips after slot 2, initial parity false.      *)
C4_Witness ==
  /\ EllipsesCall
  /\ frame.call.n = 8 /\ frame.call.flip = 2 /\ ~frame.call.parity
  /\ Len(frame.call.out) = 8
  /\ Cardinality(Coloured(frame.call.out)) = 4
  /\ fs[HarnessFile].data = Header(1, 1) \o frame.call.out

(* C5: in a DrawCircleOfEllipses call with initial parity p and flip index *)
(* f, slot i gets the class ClassFor(i, q(i)) where q(i) = p for i <= f    *)
(* and ~p for i > f: the parity inverts once, after slot f, and never when *)
(* f is at or beyond the slot count.                                       *)
C5_ClassByParityInEffect ==
  EllipsesCall =>
    LET c == frame.call
    IN  /\ Len(c.out) = c.n
        /\ \A x \in 0..(c.n - 1) :
             c.out[x + 1].class = ClassFor(x, ParityAt(c.parity, c.flip, x))
        /\ c.flip >= c.n =>
             \A x \in 0..(c.n - 1) : c.out[x + 1].class = ClassFor(x, c.parity)

(* A call whose flip index 2 is a coloured slot inside the ring: slot 2    *)
(* still has the initial parity's class, slot 4 the inverted one.          *)
C5_Witness ==
  /\ EllipsesCall
  /\ frame.call.n = 8 /\ frame.call.flip = 2 /\ frame.call.parity
  /\ frame.call.out[3].class = "w"
  /\ frame.call.out[5].class = "w"
  /\ frame.call.out[7].class = "b"

-----------------------------------------------------------------------------
(* The braid of 36 ellipses seen by angle.  With n = 36 a ring has 72      *)
(* slots, the step dtheta = pi/36 is 2 angle units, and the top of the     *)
(* image (angle -pi/2, y = -r) is step -18 = 54 modulo 72.                 *)

Slots36 == 2 * 36
StepOf(theta) == (theta \div 2) % Slots36
TopStep == (-18) % Slots36
BottomStep == 36 \div 2

(* The class of the slot of ring c that lies at step s.                    *)
ClassAtStep(c, s) ==
  LET x == CHOOSE x \in 1..Len(c.out) : StepOf(c.out[x].theta) = s
  IN  c.out[x].class
ColouredSteps(c) == {s \in 0..(Slots36 - 1) : ClassAtStep(c, s) \in {"b", "w"}}
(* The next coloured slot after step s, going round.                       *)
NextColoured(c, s) ==
  LET d == CHOOSE d \in 1..Slots36 :
             /\ (s + d) % Slots36 \in ColouredSteps(c)
             /\ \A e \in 1..(d - 1) : (s + e) % Slots36 \notin ColouredSteps(c)
  IN  (s + d) % Slots36
(* Consecutive coloured slots alternate, but for the pairs starting at seams. *)
AlternatesBut(c, seams) ==
  \A s \in ColouredSteps(c) \ seams :
    ClassAtStep(c, NextColoured(c, s)) # ClassAtStep(c, s)
(* A gap at step s whose two neighbouring coloured slots both have class cl. *)
GapBetween(c, s, cl) ==
  /\ ClassAtStep(c, s) = "none"
  /\ ClassAtStep(c, (s + Slots36 - 1) % Slots36) = cl
  /\ ClassAtStep(c, (s + 1) % Slots36) = cl
  /\ NextColoured(c, (s + Slots36 - 1) % Slots36) = (s + 1) % Slots36
(* Every step of the circle holds exactly one slot of ring c.              *)
OneSlotPerStep(c) ==
  /\ Len(c.out) = Slots36
  /\ \A x \in 1..Len(c.out) : c.out[x].theta % 2 = 0
  /\ \A s \in 0..(Slots36 - 1) :
       Cardinality({x \in 1..Len(c.out) : StepOf(c.out[x].theta) = s}) = 1

(* C10: DrawTripleCircle with n = 36, flip = false.  The middle ring has a *)
(* Dark ellipse at the top and its 36 coloured ellipses alternate all the  *)
(* way round; the inner ring has a gap at the top between two Dark         *)
(* ellipses, a gap at the bottom between two Light ones, and alternates    *)
(* between every other pair of consecutive coloured slots; the outer ring  *)
(* is the inner ring with Dark and Light interchanged.                     *)
C10_BraidPattern ==
  (TripleCall /\ frame.n = 36 /\ ~frame.flip) =>
    LET middle == frame.calls[1]
        inner == frame.calls[2]
        outer == frame.calls[3]
    IN  /\ \A c \in 1..3 :
             /\ OneSlotPerStep(frame.calls[c])
             /\ Cardinality(ColouredSteps(frame.calls[c])) = 36
        /\ ClassAtStep(middle, TopStep) = "b"
        /\ AlternatesBut(middle, {})
        /\ GapBetween(inner, TopStep, "b")
        /\ GapBetween(inner, BottomStep, "w")
        /\ AlternatesBut(inner, {TopStep - 1, BottomStep - 1})
        /\ GapBetween(outer, TopStep, "w")
        /\ GapBetween(outer, BottomStep, "b")
        /\ AlternatesBut(outer, {TopStep - 1, BottomStep - 1})

(* The unflipped braid of 36 has been drawn: the inner ring's slot 35 is   *)
(* the gap at the bottom, after which its parity is inverted.              *)
C10_Witness ==
  /\ TripleCall /\ frame.n = 36 /\ ~frame.flip
  /\ frame.calls[2].flip = 35
  /\ StepOf(frame.calls[2].out[36].theta) = BottomStep
  /\ frame.calls[2].out[35].class = "w"
  /\ frame.calls[2].out[37].class = "w"

-----------------------------------------------------------------------------
(* The generation routines and main.                                       *)

(* Number of elements of data with the given tag.                          *)
CountTag(data, tag) == Cardinality({x \in 1..Len(data) : data[x].tag = tag})

(* C2: OpticalIllusion2 called with ellipse count n makes braids of        *)
(* exactly three ring-of-ellipses calls, each over exactly 2n slots, n of  *)
(* them visible and n gaps, and when it closes the document it has drawn   *)
(* exactly two braids.                                                     *)
C2_SlotsFollowN ==
  /\ (TripleCall /\ args.fn = 2) =>
       /\ Len(frame.calls) = 3
       /\ \A c \in 1..3 :
            /\ frame.calls[c].n = 2 * args.n
            /\ Len(frame.calls[c].out) = 2 * args.n
            /\ Cardinality(Coloured(frame.calls[c].out)) = args.n
            /\ Cardinality(GapSlots(frame.calls[c].n)) = args.n
  /\ (pc = "return" /\ args.fn = 2 /\ fs[args.fname].state = "closed") =>
       CountTag(fs[args.fname].data, "ellipse") = 2 * 3 * (2 * args.n)

(* C6: in every execution of a generation routine whose open succeeds, no  *)
(* write or close uses a handle that is not open (every write falls        *)
(* between the open and the close), the closing tag is the last element of *)
(* the closed file and the only closing tag in it, CloseSVG has closed the *)
(* handle, and the handle is null when the routine returns; CloseSVG on a  *)
(* null handle writes nothing, closes nothing and leaves the handle null.  *)
C6_OpenWriteCloseOnce ==
  /\ ~ub
  /\ \A f \in Files :
       fs[f].state = "closed" =>
         /\ fs[f].data[Len(fs[f].data)].tag = "/svg"
         /\ CountTag(fs[f].data, "/svg") = 1
  /\ \A f \in Files : fs[f].state = "open" => CountTag(fs[f].data, "/svg") = 0
  /\ \A f \in Files : fs[f].state = "open" <=> output = f
  /\ (pc = "return" /\ fs[args.fname].state # "failed") =>
       /\ output = NULL
       /\ fs[args.fname].state = "closed"
       /\ frame = [fn |-> "CloseSVG", before |-> args.fname,
                   wrote |-> <<[tag |-> "/svg"]>>, closed |-> TRUE]
  /\ (frame.fn = "CloseSVG" /\ frame.before = NULL) =>
       /\ frame.wrote = <<>>
       /\ ~frame.closed
       /\ output = NULL
       /\ \A f \in Files : fs[f].state # "open"

(* OpticalIllusion2 has run with a successful open and returned, and       *)
(* CloseSVG has then been called on the null handle.                       *)
C6_Witness ==
  /\ pc = "unit"
  /\ fs["output2"].state = "closed"
  /\ Len(fs["output2"].data) > Len(Header(1, 1))
  /\ frame.fn = "CloseSVG" /\ frame.before = NULL
  /\ output = NULL

(* File k of main, and the length of a complete document of that routine:  *)
(* header, style, background, the shapes, the closing tag.                 *)
FileOf(c) == MainCalls[c].fname
CompleteLen(c) ==
  IF MainCalls[c].fn = 1 THEN 3 + 2 + (18 + 30 + 42 + 56) + 1
                         ELSE 3 + 2 + 2 * 3 * 72 + 1

(* C7: a routine whose open fails writes nothing, makes no layout call and *)
(* no close, and returns; main attempts the four files in the order        *)
(* output1, output1a, output2, output2a whatever the earlier opens did, a  *)
(* file whose open succeeds gets its complete document, and main returns 0.*)
C7_FailuresSkippedSilently ==
  /\ ~ub
  /\ ret \in {NoRet, <<0>>}
  /\ \A c \in 1..4 :
       /\ fs[FileOf(c)].state = "failed" => fs[FileOf(c)].data = <<>>
       /\ fs[FileOf(c)].state = "closed" =>
            Len(fs[FileOf(c)].data) = CompleteLen(c)
       /\ c < k => fs[FileOf(c)].state \in {"failed", "closed"}
       /\ c > k => fs[FileOf(c)].state = "untouched"
  /\ pc \notin {"main", "done"} => args = MainCalls[k]
  /\ (pc = "return" /\ fs[args.fname].state = "failed") =>
       /\ output = NULL
       /\ frame = [fn |-> "OpenSVG", fname |-> args.fname, w |-> args.w,
                   h |-> args.w, ok |-> FALSE]
  /\ pc = "main" => k \in 1..5
  /\ pc = "done" => (k = 5 /\ ret = <<0>>)
  /\ ret = <<0>> => pc = "done"

(* main has returned after the opens of output1 and output2 failed and     *)
(* those of output1a and output2a succeeded.                               *)
C7_Witness ==
  /\ pc = "done" /\ ret = <<0>>
  /\ fs["output1"].state = "failed"
  /\ fs["output1a"].state = "closed"
  /\ fs["output2"].state = "failed"
  /\ fs["output2a"].state = "closed"

=============================================================================
